---- MODULE Spec2Model ----
(***************************************************************************)
(* A model of py-didery's client helpers:                                  *)
(*   - the fan-out of one request per replica (lib/historying.py,          *)
(*     lib/otping.py: patronHelper and the record services;                *)
(*     help/helping.py: httpRequest, awaitAsync),                          *)
(*   - validateDid, verify / verify64u, parseJsonFile / parseDataFile      *)
(*     (help/helping.py).                                                  *)
(* Clock values are counted in ticks of 0.125 s, the amount httpRequest    *)
(* advances its store's stamp by after every yield.                        *)
(***************************************************************************)
EXTENDS Integers, Sequences, FiniteSets, TLC

\* ---------------------------------------------------------------- bounds
\* Number of replica urls a caller may name.
NumReplicas == 2
\* Largest httpRequest timeout explored, in ticks.
MaxTimeout == 3
\* Longest string handed to validateDid, in characters.
MaxDidLen == 7
\* Longest message signed or verified, in bytes.
MaxMsgLen == 2
\* Number of key pairs.
NumKeys == 2
\* Length of a signature in bytes (libnacl.crypto_sign_BYTES, scaled down).
SigLen == 2
\* Length of a verification key in bytes (scaled down).
VkLen == 1
\* Number of awaitAsync rounds explored under httpRequest's default timeout.
MaxDefaultRounds == 82

\* ------------------------------------------------------ program constants
\* store.advanceStamp(0.125): one tick.
AdvanceTicks == 1
\* Store(stamp=0.0)
InitialStamp == 0
\* the status of the timeout outcome, ({"error": "request timeout"}, 0)
TimeoutStatus == 0
\* ticks of 0.125 in one unit of the store's clock
TicksPerSecond == 8
\* timeout=10000.0, httpRequest's default, which patronHelper leaves in place
DefaultTimeout == 10000 * TicksPerSecond

VARIABLES
    service,    \* "history" | "otp": which module's record service made the call
    urls,       \* the list of replica urls the caller passed
    timeout,    \* httpRequest's timeout, in ticks
    gen,        \* per replica: the state of its patronHelper generator
    pending,    \* awaitAsync: the keys of `generators`, in dict order
    remove,     \* awaitAsync: the list `remove` of the current round
    cursor,     \* awaitAsync: position of the for loop in `pending`
    round,      \* awaitAsync: number of the current pass of `while True`
    values,     \* awaitAsync: the dict `values`
    pc,         \* "loop" | "returned" | "raised"
    exc,        \* the exception that left awaitAsync, "" when none
    did,        \* validateDid: the argument did, a sequence of characters
    method,     \* validateDid: the argument method
    didOut,     \* validateDid: <<>> before the call, <<result>> after it
    signer,     \* verify: the key pair the message was signed with
    signedMsg,  \* verify: the message that was signed
    signature,  \* verify: <<>> before signing, <<the signature>> after it
    verifyFn,   \* "" | "verify" | "verify64u": the function called
    verifyArgs, \* the arguments <<sig, msg, vk>> of that call
    verifyOut,  \* <<>> before the call, <<result>> after it
    file,       \* parseJsonFile / parseDataFile: the content of the file
    parseFn,    \* "" | "parseJsonFile" | "parseDataFile": the function called
    parseArg,   \* its second argument: requireds, or dtype
    parseOut,   \* <<>> before the call, <<result>> after it
    fn,         \* the record service function called, "" when none
    args,       \* its arguments data, sk and psk, as the caller passed them
    dataDict,   \* the dict object the caller passed as data, as it is now
    bdata,      \* <<>>, or <<the serialization that is signed>>
    headers,    \* the headers handed to patronHelper
    svcOut      \* <<>> before the function returns, <<its value>> after

fanVars == <<service, urls, timeout, gen, pending, remove, cursor, round,
             values, pc, exc>>

didVars == <<did, method, didOut>>

verifyVars == <<signer, signedMsg, signature, verifyFn, verifyArgs, verifyOut>>

parseVars == <<file, parseFn, parseArg, parseOut>>

svcVars == <<fn, args, dataDict, bdata, headers, svcOut>>

vars == <<fanVars, didVars, verifyVars, parseVars, svcVars>>

\* ------------------------------------------------------------- utilities
Replicas == 1 .. NumReplicas

Range(s) == {s[i] : i \in DOMAIN s}

\* a pop that drops every generator once any has finished
WithoutAny(s, gone) == IF gone = {} THEN s ELSE <<>>

RECURSIVE Without(_, _)
\* generators.pop(val) for each val of remove: the list s without the
\* elements of the set gone, order kept
Without(s, gone) ==
    IF s = <<>> THEN <<>>
    ELSE IF Head(s) \in gone THEN Without(Tail(s), gone)
         ELSE <<Head(s)>> \o Without(Tail(s), gone)

\* all sequences over S of length at most n
SeqsUpTo(S, n) == UNION {[1 .. k -> S] : k \in 0 .. n}

\* ------------------------------------------------------------ validateDid
\* A string is the sequence of its characters.
RECURSIVE Split(_, _)
\* str.split(sep) for a one-character sep: the list of the parts
Split(s, sep) ==
    IF \A i \in DOMAIN s : s[i] # sep THEN <<s>>
    ELSE LET i == CHOOSE k \in DOMAIN s :
                      s[k] = sep /\ \A j \in 1 .. k - 1 : s[j] # sep
         IN <<SubSeq(s, 1, i - 1)>> \o Split(SubSeq(s, i + 1, Len(s)), sep)

DidPrefix == <<"d", "i", "d">>

\* the default of validateDid's method argument
DefaultMethod == <<"d", "a", "d">>

\* A result of a call: exc is "" and val the returned value, or exc is the
\* exception's type, msg its message and val <<>>.
Returned(v) == [exc |-> "", msg |-> <<>>, val |-> v]

Raised(e, m) == [exc |-> e, msg |-> m, val |-> <<>>]

\* validateDid rejecting only a DID whose prefix and method are both wrong
ValidateDidBothWrong(d, m) ==
    LET parts == Split(d, ":") IN
    IF Len(parts) # 3
    THEN Raised("ValueError", <<"Malformed DID value">>)
    ELSE IF parts[1] # DidPrefix /\ parts[2] # m
         THEN Raised("ValueError", <<"Invalid DID value">>)
         ELSE Returned(<<d, parts[3]>>)

\* validateDid(did, method)
ValidateDid(d, m) ==
    LET parts == Split(d, ":") IN
    IF Len(parts) # 3
    THEN Raised("ValueError", <<"Malformed DID value">>)
    ELSE IF parts[1] # DidPrefix \/ parts[2] # m
         THEN Raised("ValueError", <<"Invalid DID value">>)
         ELSE Returned(<<d, parts[3]>>)

\* ------------------------------------------------------ verify, verify64u
\* A byte is <<tag, n, m, i>>: a data byte <<"b", n, <<>>, 0>>, byte i of
\* the verification key of pair n <<"v", n, <<>>, i>>, or byte i of the
\* signature of message m under the signing key of pair n <<"s", n, m, i>>.
\* Signatures are unforgeable: only signing produces signature bytes.
DataByte(n) == <<"b", n, <<>>, 0>>

KeyIds == 1 .. NumKeys

\* the verification key of pair k
Vk(k) == [i \in 1 .. VkLen |-> <<"v", k, <<>>, i>>]

\* the detached signature of message m under the signing key of pair k:
\* libnacl.crypto_sign(m, sk)[:crypto_sign_BYTES]
Sign(m, k) == [i \in 1 .. SigLen |-> <<"s", k, m, i>>]

\* libnacl.crypto_sign_open(sm, vk): the message of the signed message sm,
\* or ValueError when vk is no key or the signature does not fit
CryptoSignOpen(sm, vk) ==
    IF \A k \in KeyIds : vk # Vk(k)
    THEN Raised("ValueError", <<"Invalid public key">>)
    ELSE IF Len(sm) < SigLen
    THEN Raised("ValueError", <<"Failed to validate message">>)
    ELSE LET k == CHOOSE x \in KeyIds : vk = Vk(x)
             m == SubSeq(sm, SigLen + 1, Len(sm))
         IN IF SubSeq(sm, 1, SigLen) = Sign(m, k)
            THEN Returned(m)
            ELSE Raised("ValueError", <<"Failed to validate message">>)

\* A message handed to verify is bytes or a unicode string (verify64u's
\* docstring): [type |-> "bytes" | "str", data |-> the sequence].
BytesMsg(m) == [type |-> "bytes", data |-> m]

StrMsg(m) == [type |-> "str", data |-> m]

\* sig + msg: bytes + str raises TypeError
Concat(sig, msg) ==
    IF msg.type = "bytes" THEN Returned(sig \o msg.data)
    ELSE Raised("TypeError", <<"can't concat str to bytes">>)

\* verify(sig, msg, vk): everything inside the try; True if result else
\* False, and an empty bytes result is false
Verify(sig, msg, vk) ==
    LET sm == Concat(sig, msg) IN
    IF sm.exc # "" THEN Returned(FALSE)
    ELSE LET result == CryptoSignOpen(sm.val, vk) IN
         IF result.exc # "" THEN Returned(FALSE)
         ELSE Returned(result.val # <<>>)

\* A character of base64 text is <<"c", byte>>, a character of the url-safe
\* alphabet (standing for the byte it encodes), or <<"!", byte>>, a character
\* that makes the text undecodable.
KeyToKey64u(key) == [i \in DOMAIN key |-> <<"c", key[i]>>]

\* gen.key64uToKey(text): the bytes, or an error for malformed text
Key64uToKey(text) ==
    IF \E i \in DOMAIN text : text[i][1] # "c"
    THEN Raised("DecodeError", <<"malformed base64">>)
    ELSE Returned([i \in DOMAIN text |-> text[i][2]])

\* verify64u(signature, message, verkey): both decodes are outside any try
Verify64u(sigText, msg, vkText) ==
    LET sig == Key64uToKey(sigText) IN
    IF sig.exc # "" THEN sig
    ELSE LET vk == Key64uToKey(vkText) IN
         IF vk.exc # "" THEN vk
         ELSE Verify(sig.val, msg, vk.val)

\* ------------------------------------------- parseJsonFile, parseDataFile
\* A JSON value is <<type, payload>>: <<"null", <<>>>>, <<"bool", <<"true">>>>,
\* <<"num", <<"7">>>>, <<"str", characters>>, <<"arr", values>> and
\* <<"obj", pairs>>, the pairs <<key, value>> in the order of the text.
JNull == <<"null", <<>>>>

JFalse == <<"bool", <<"false">>>>

JTrue == <<"bool", <<"true">>>>

JNum(n) == <<"num", <<n>>>>

JStr(chars) == <<"str", chars>>

JArr(items) == <<"arr", items>>

JObj(pairs) == <<"obj", pairs>>

\* the characters of a key
KeyText(k) ==
    CASE k = "id" -> <<"i", "d">>
      [] k = "signer" -> <<"s", "i", "g", "n", "e", "r">>
      [] k = "signers" -> <<"s", "i", "g", "n", "e", "r", "s">>
      [] k = "blob" -> <<"b", "l", "o", "b">>
      [] k = "history" -> <<"h", "i", "s", "t", "o", "r", "y">>
      [] k = "otp" -> <<"o", "t", "p">>
      [] OTHER -> <<"x">>

HasKey(obj, k) == \E i \in DOMAIN obj[2] : obj[2][i][1] = k

\* obj[k] for a key the dict has
GetItem(obj, k) == obj[2][CHOOSE i \in DOMAIN obj[2] : obj[2][i][1] = k][2]

\* odict[k] = v: a key already there keeps its place and takes the value
SetItem(pairs, kv) ==
    IF \E i \in DOMAIN pairs : pairs[i][1] = kv[1]
    THEN [pairs EXCEPT ![CHOOSE i \in DOMAIN pairs : pairs[i][1] = kv[1]] = kv]
    ELSE Append(pairs, kv)

RECURSIVE ODict(_)
\* object_pairs_hook=ODict: the ordered dict of the pairs of the text
ODict(pairs) ==
    IF pairs = <<>> THEN <<>>
    ELSE SetItem(ODict(SubSeq(pairs, 1, Len(pairs) - 1)), pairs[Len(pairs)])

RECURSIVE JsonLoad(_)
\* json.load(f, object_pairs_hook=ODict) of a well-formed JSON text
JsonLoad(doc) ==
    IF doc[1] = "obj"
    THEN JObj(ODict([i \in DOMAIN doc[2] |->
                        <<doc[2][i][1], JsonLoad(doc[2][i][2])>>]))
    ELSE IF doc[1] = "arr"
    THEN JArr([i \in DOMAIN doc[2] |-> JsonLoad(doc[2][i])])
    ELSE doc

\* the truth value of a Python value in `if not data`
PyTruthy(v) ==
    CASE v[1] = "null" -> FALSE
      [] v[1] = "bool" -> v[2] = <<"true">>
      [] v[1] = "num" -> v[2] # <<"0">>
      [] OTHER -> v[2] # <<>>

\* isinstance(data, dict)
IsDict(v) == v[1] = "obj"

\* the first field of requireds that `field not in data` finds missing, as
\* <<field>>; <<>> when none is
RECURSIVE FirstMissing(_, _)
FirstMissing(data, requireds) ==
    IF requireds = <<>> THEN <<>>
    ELSE IF ~HasKey(data, Head(requireds)) THEN <<Head(requireds)>>
    ELSE FirstMissing(data, Tail(requireds))

\* parseJsonFile with the dict check ahead of the emptiness check
ParseJsonFileDictFirst(f, requireds) ==
    IF f.kind \in {"empty", "garbage"}
    THEN Raised("ValidationError", <<"Invalid JSON">>)
    ELSE IF f.kind = "deep"
    THEN Raised("ValidationError", <<"Unexpected error">>)
    ELSE LET data == JsonLoad(f.doc) IN
         IF ~IsDict(data)
         THEN Raised("ValidationError", <<"JSON not dict">>)
         ELSE IF ~PyTruthy(data)
         THEN Raised("ValidationError", <<"Empty body">>)
         ELSE IF FirstMissing(data, requireds) # <<>>
         THEN Raised("ValidationError",
                     <<"Missing required field">> \o FirstMissing(data, requireds))
         ELSE Returned(data)

\* A file is [kind, doc]: kind "empty" (no bytes), "garbage" (text that is
\* not JSON), "deep" (JSON nested deeper than the decoder's recursion
\* limit) or "json" (the text of the JSON value doc).
\* parseJsonFile(file, requireds)
ParseJsonFile(f, requireds) ==
    IF f.kind \in {"empty", "garbage"}
    THEN Raised("ValidationError", <<"Invalid JSON">>)
    ELSE IF f.kind = "deep"
    THEN Raised("ValidationError", <<"Unexpected error">>)
    ELSE LET data == JsonLoad(f.doc) IN
         IF ~PyTruthy(data)
         THEN Raised("ValidationError", <<"Empty body">>)
         ELSE IF ~IsDict(data)
         THEN Raised("ValidationError", <<"JSON not dict">>)
         ELSE IF FirstMissing(data, requireds) # <<>>
         THEN Raised("ValidationError",
                     <<"Missing required field">> \o FirstMissing(data, requireds))
         ELSE Returned(data)

\* whether the characters sub occur in s, one after the other
IsSubstring(sub, s) ==
    \E i \in 0 .. Len(s) - Len(sub) : SubSeq(s, i + 1, i + Len(sub)) = sub

\* `field in data` for a value of any type: a dict looks up the key, a str
\* searches the text, a list compares its items; the other types raise
Contains(data, field) ==
    CASE data[1] = "obj" -> Returned(HasKey(data, field))
      [] data[1] = "str" -> Returned(IsSubstring(KeyText(field), data[2]))
      [] data[1] = "arr" ->
            Returned(\E i \in DOMAIN data[2] : data[2][i] = JStr(KeyText(field)))
      [] OTHER -> Raised("TypeError", <<"argument is not iterable">>)

\* data[key] for a value of any type
Subscript(data, key) ==
    IF data[1] = "obj"
    THEN IF HasKey(data, key) THEN Returned(GetItem(data, key))
         ELSE Raised("KeyError", <<key>>)
    ELSE Raised("TypeError", <<"bad subscript">>)

\* validateDid(value) for a value of any type: did.split needs a str
ValidateDidOf(v) ==
    IF v[1] = "str" THEN ValidateDid(v[2], DefaultMethod)
    ELSE Raised("AttributeError", <<"no attribute 'split'">>)

\* the for loops of parseDataFile over the fields of the wrapped value
RECURSIVE CheckFields(_, _)
CheckFields(data, fields) ==
    IF fields = <<>> THEN Returned(data)
    ELSE LET c == Contains(data, Head(fields)) IN
         IF c.exc # "" THEN c
         ELSE IF ~c.val
         THEN Raised("ValidationError",
                     <<"Missing required field", Head(fields)>>)
         ELSE CheckFields(data, Tail(fields))

\* a parseDataFile that does not ask a history record for its signers
InnerFieldsNoSigners(dtype) ==
    IF dtype = "history" THEN <<"id", "signer">> ELSE <<"id", "blob">>

\* the fields parseDataFile requires inside the wrapper of a dtype
InnerFields(dtype) ==
    IF dtype = "history" THEN <<"id", "signer", "signers">> ELSE <<"id", "blob">>

\* the part of parseDataFile before `# Check for valid did`
ParseDataFileFields(f, dtype) ==
    IF dtype \in {"history", "otp"}
    THEN LET outer == ParseJsonFile(f, <<dtype>>) IN
         IF outer.exc # "" THEN outer
         ELSE CheckFields(GetItem(outer.val, dtype), InnerFields(dtype))
    ELSE Returned(JObj(<<>>))

\* parseDataFile(file, dtype)
ParseDataFile(f, dtype) ==
    LET data == ParseDataFileFields(f, dtype) IN
    IF data.exc # "" THEN data
    ELSE LET id == Subscript(data.val, "id") IN
         IF id.exc # "" THEN id
         ELSE LET v == ValidateDidOf(id.val) IN
              IF v.exc # "" THEN v ELSE data

\* ------------------------------------------------- replicas' responses
\* A response body is bytes: the JSON text of a record, text that is not
\* JSON, or bytes that are not UTF-8.
JsonBodies == {"recA", "recB"}
Bodies == JsonBodies \cup {"text", "binary"}
Statuses == {200, 404}
Responses == [body : Bodies, status : Statuses]

\* What one client.serviceAll() call may bring about.
\* "idle": no progress; "sent": the request has left (client.requests and
\* connector.txes are empty); "response": a complete response has been
\* parsed into client.responses; "raise": serviceAll raises.
ServiceEvents ==
    [kind : {"idle", "sent", "raise"}, body : {""}, status : {0}]
        \cup [kind : {"response"}, body : Bodies, status : Statuses]

Idle == [kind |-> "idle", body |-> "", status |-> 0]

ResponseOf(ev) == [body |-> ev.body, status |-> ev.status]

\* bytes.decode("utf-8")
Utf8Decodable(body) == body # "binary"

\* json.loads of a decoded body raises for text that is not JSON
JsonLoadable(text) == text \in JsonBodies

\* json.loads(text): the decoded object, as a <<key, value>> pair
JsonLoads(text) == <<"record", text>>

\* {"error": "request timeout"}
TimeoutBody == <<"error", "request timeout">>

TimeoutOutcome == <<TimeoutBody, TimeoutStatus>>

\* ------------------------------------------------------------ httpRequest
\* The generator of one replica before its first next().
FreshGen ==
    [st        |-> "fresh",
     stamp     |-> InitialStamp,
     stop      |-> InitialStamp,
     requests  |-> FALSE,
     responses |-> <<>>,
     received  |-> <<>>,
     conn      |-> "none",
     steps     |-> 0]

\* timing.StoreTimer(store, duration).expired
TimerExpired(g) == g.stamp >= g.stop

\* the while condition of httpRequest
LoopCond(g) ==
    (g.requests \/ g.responses = <<>>) /\ ~TimerExpired(g)

\* Patron(...), client.transmit(), StoreTimer(store=store, duration=timeout)
HttpRequestEnter(g, tmo) ==
    [g EXCEPT !.st = "suspended",
              !.requests = TRUE,
              !.conn = "open",
              !.stop = g.stamp + tmo]

\* a clock that runs only while the request is still being sent
HttpRequestResumeWhileSending(g) ==
    IF g.requests THEN [g EXCEPT !.stamp = @ + AdvanceTicks] ELSE g

\* the resumption after `yield b''`: store.advanceStamp(0.125)
HttpRequestResume(g) == [g EXCEPT !.stamp = @ + AdvanceTicks]

\* client.serviceAll() under event ev (ev # "raise")
ServiceAll(g, ev) ==
    IF ev.kind = "idle" THEN [g EXCEPT !.steps = @ + 1]
    ELSE IF ev.kind = "sent"
         THEN [g EXCEPT !.steps = @ + 1, !.requests = FALSE]
    ELSE [g EXCEPT !.steps = @ + 1,
                   !.requests = FALSE,
                   !.responses = Append(@, ResponseOf(ev)),
                   !.received = Append(@, ResponseOf(ev))]

\* an exit that gives the deadline precedence over a queued response
HttpRequestExitTimerFirst(g) ==
    [g   |-> [g EXCEPT !.st = "finished",
                       !.responses = IF @ = <<>> \/ TimerExpired(g)
                                     THEN @ ELSE Tail(@),
                       !.conn = "closed"],
     kind |-> "return",
     val  |-> IF g.responses = <<>> \/ TimerExpired(g)
              THEN <<>> ELSE <<Head(g.responses)>>,
     exc  |-> ""]

\* The code after the while loop: pop the response if any, client.close().
\* The returned value is <<>> for None, <<response>> otherwise.
HttpRequestExit(g) ==
    [g   |-> [g EXCEPT !.st = "finished",
                       !.responses = IF @ = <<>> THEN <<>> ELSE Tail(@),
                       !.conn = "closed"],
     kind |-> "return",
     val  |-> IF g.responses = <<>> THEN <<>> ELSE <<Head(g.responses)>>,
     exc  |-> ""]

\* One pass from the while condition to the next yield, return or raise.
HttpRequestLoop(g, ev) ==
    IF LoopCond(g)
    THEN IF ev.kind = "raise"
         THEN [g |-> [g EXCEPT !.st = "raised", !.steps = @ + 1],
               kind |-> "raise", val |-> <<>>, exc |-> "ServiceError"]
         ELSE [g |-> ServiceAll(g, ev),
               kind |-> "yield", val |-> <<>>, exc |-> ""]
    ELSE HttpRequestExit(g)

\* next() on the httpRequest generator
HttpRequestNext(g, tmo, ev) ==
    IF g.st = "fresh"
    THEN HttpRequestLoop(HttpRequestEnter(g, tmo), ev)
    ELSE HttpRequestLoop(HttpRequestResume(g), ev)

\* ----------------------------------------------------------- patronHelper
\* result.get('body') / result['body'] on the value httpRequest returned
NoneAccessError(svc) ==
    IF svc = "history" THEN "AttributeError" ELSE "TypeError"

\* next() on the patronHelper generator: `yield from` httpRequest, then
\* return (body decoded, status).
PatronHelperNext(svc, g, tmo, ev) ==
    LET h == HttpRequestNext(g, tmo, ev) IN
    IF h.kind # "return" THEN h
    ELSE IF h.val = <<>>
         THEN [h EXCEPT !.kind = "raise", !.exc = NoneAccessError(svc)]
    ELSE IF ~Utf8Decodable(h.val[1].body)
         THEN [h EXCEPT !.kind = "raise", !.exc = "UnicodeDecodeError"]
    ELSE [h EXCEPT !.val = <<h.val[1].body, h.val[1].status>>]

\* ------------------------------------------------------------- awaitAsync
\* `generators` is a dict in historying.py and a list in otping.py
GeneratorsIsDict(svc) == svc = "history"

\* truth value of si.value in `if si.value:`
Truthy(val) == val # <<>>

\* for i, generator in generators.items(): a list has no items()
AwaitItemsRaises ==
    /\ pc = "loop"
    /\ ~GeneratorsIsDict(service)
    /\ pc' = "raised"
    /\ exc' = "AttributeError"
    /\ UNCHANGED <<service, urls, timeout, gen, pending, remove, cursor,
                   round, values>>
    /\ UNCHANGED <<didVars, verifyVars, parseVars, svcVars>>

\* next(generator) yields: the for loop moves on
AwaitStepYield ==
    /\ pc = "loop"
    /\ GeneratorsIsDict(service)
    /\ cursor <= Len(pending)
    /\ \E ev \in ServiceEvents :
         LET r == pending[cursor]
             n == PatronHelperNext(service, gen[r], timeout, ev)
         IN /\ n.kind = "yield"
            /\ gen' = [gen EXCEPT ![r] = n.g]
    /\ cursor' = cursor + 1
    /\ UNCHANGED <<service, urls, timeout, pending, remove, round, values,
                   pc, exc>>
    /\ UNCHANGED <<didVars, verifyVars, parseVars, svcVars>>

\* next(generator) raises StopIteration: record the value, or fail in
\* json.loads
AwaitStepStop ==
    /\ pc = "loop"
    /\ GeneratorsIsDict(service)
    /\ cursor <= Len(pending)
    /\ LET r == pending[cursor]
           n == PatronHelperNext(service, gen[r], timeout, Idle)
       IN /\ n.kind = "return"
          /\ gen' = [gen EXCEPT ![r] = n.g]
          /\ IF Truthy(n.val)
             THEN IF JsonLoadable(n.val[1])
                  THEN /\ values' = (r :> <<JsonLoads(n.val[1]), n.val[2]>>) @@ values
                       /\ remove' = Append(remove, r)
                       /\ cursor' = cursor + 1
                       /\ UNCHANGED <<pc, exc>>
                  ELSE /\ pc' = "raised"
                       /\ exc' = "JSONDecodeError"
                       /\ UNCHANGED <<values, remove, cursor>>
             ELSE /\ values' = (r :> TimeoutOutcome) @@ values
                  /\ remove' = Append(remove, r)
                  /\ cursor' = cursor + 1
                  /\ UNCHANGED <<pc, exc>>
    /\ UNCHANGED <<service, urls, timeout, pending, round>>
    /\ UNCHANGED <<didVars, verifyVars, parseVars, svcVars>>

\* next(generator) raises anything else: it leaves awaitAsync
AwaitStepRaise ==
    /\ pc = "loop"
    /\ GeneratorsIsDict(service)
    /\ cursor <= Len(pending)
    /\ \E ev \in {e \in ServiceEvents : e.kind \in {"idle", "raise"}} :
         LET r == pending[cursor]
             n == PatronHelperNext(service, gen[r], timeout, ev)
         IN /\ n.kind = "raise"
            /\ gen' = [gen EXCEPT ![r] = n.g]
            /\ exc' = n.exc
    /\ pc' = "raised"
    /\ UNCHANGED <<service, urls, timeout, pending, remove, cursor, round,
                   values>>
    /\ UNCHANGED <<didVars, verifyVars, parseVars, svcVars>>

\* the end of the for loop: pop the finished generators, return when none
\* is left
AwaitEndRound ==
    /\ pc = "loop"
    /\ GeneratorsIsDict(service)
    /\ cursor > Len(pending)
    /\ pending' = Without(pending, Range(remove))
    /\ remove' = <<>>
    /\ IF pending' = <<>>
       THEN /\ pc' = "returned"
            /\ UNCHANGED <<round, cursor>>
       ELSE /\ round' = round + 1
            /\ cursor' = 1
            /\ UNCHANGED pc
    /\ UNCHANGED <<service, urls, timeout, gen, values, exc>>
    /\ UNCHANGED <<didVars, verifyVars, parseVars, svcVars>>

\* ------------------------------------------------------- the fan-out call
UrlLists ==
    {s \in UNION {[1 .. n -> Replicas] : n \in 0 .. NumReplicas} :
        \A i, j \in DOMAIN s : i # j => s[i] # s[j]}

\* A record service has built one patronHelper generator per url and calls
\* awaitAsync(generators).
FanCall ==
    /\ service \in {"history", "otp"}
    /\ urls \in UrlLists
    /\ timeout \in 1 .. MaxTimeout
    /\ gen = [r \in Replicas |-> FreshGen]
    /\ pending = urls
    /\ remove = <<>>
    /\ cursor = 1
    /\ round = 1
    /\ values = <<>>
    /\ pc = "loop"
    /\ exc = ""

FanNext ==
    \/ AwaitItemsRaises
    \/ AwaitStepYield
    \/ AwaitStepStop
    \/ AwaitStepRaise
    \/ AwaitEndRound

\* no fan-out call is under way
FanIdle ==
    /\ service = "history"
    /\ urls = <<>>
    /\ timeout = 1
    /\ gen = [r \in Replicas |-> FreshGen]
    /\ pending = <<>>
    /\ remove = <<>>
    /\ cursor = 1
    /\ round = 1
    /\ values = <<>>
    /\ pc = "idle"
    /\ exc = ""

\* no validateDid call is under way
DidIdle ==
    /\ did = <<>>
    /\ method = <<>>
    /\ didOut = <<>>

\* nothing has been signed or verified
VerifyIdle ==
    /\ signer = 1
    /\ signedMsg = <<>>
    /\ signature = <<>>
    /\ verifyFn = ""
    /\ verifyArgs = <<>>
    /\ verifyOut = <<>>

\* no file is being parsed
ParseIdle ==
    /\ file = [kind |-> "empty", doc |-> JNull]
    /\ parseFn = ""
    /\ parseArg = <<>>
    /\ parseOut = <<>>

\* headers=None: httpRequest puts its own Accept and Connection headers
NoHeaders == [signer |-> <<>>, rotation |-> <<>>]

\* no record service function has been called
SvcIdle ==
    /\ fn = ""
    /\ args = [data |-> <<>>, sk |-> 0, psk |-> 0]
    /\ dataDict = <<>>
    /\ bdata = <<>>
    /\ headers = NoHeaders
    /\ svcOut = <<>>

Init == FanCall /\ DidIdle /\ VerifyIdle /\ ParseIdle /\ SvcIdle

Next == FanNext

Spec == Init /\ [][Next]_vars

\* ------------------------------------------- validateDid as a state machine
DidAlphabet == {":", "d", "i", "a"}

Methods == {<<"a">>, DefaultMethod, <<>>}

DidInit ==
    /\ FanIdle
    /\ VerifyIdle
    /\ ParseIdle
    /\ SvcIdle
    /\ did \in SeqsUpTo(DidAlphabet, MaxDidLen)
    /\ method \in Methods
    /\ didOut = <<>>

CallValidateDid ==
    /\ didOut = <<>>
    /\ didOut' = <<ValidateDid(did, method)>>
    /\ UNCHANGED <<did, method>>
    /\ UNCHANGED <<fanVars, verifyVars, parseVars, svcVars>>

DidNext == CallValidateDid

SpecDid == DidInit /\ [][DidNext]_vars

\* ---------------------------------- verify, verify64u as a state machine
Messages == SeqsUpTo({DataByte(0), DataByte(1)}, MaxMsgLen)

\* Signatures a caller may present: the genuine one, ones of other messages
\* and keys, and malformed ones (truncated, empty, extended, corrupted).
SigCandidates(sig) ==
    {sig, <<>>, SubSeq(sig, 1, SigLen - 1), sig \o <<DataByte(0)>>,
     [sig EXCEPT ![1] = DataByte(1)]}
        \cup {Sign(m, k) : m \in Messages, k \in KeyIds}

\* Verification keys a caller may present: the keys, and malformed ones.
VkCandidates ==
    {Vk(k) : k \in KeyIds}
        \cup {<<>>, Vk(1) \o <<DataByte(0)>>, [i \in 1 .. VkLen |-> DataByte(0)]}

\* text that is the encoding of bytes b, and the same text made undecodable
TextCandidates(b) ==
    {KeyToKey64u(b), KeyToKey64u(b) \o <<<<"!", DataByte(0)>>>>}

VerifyInit ==
    /\ FanIdle
    /\ DidIdle
    /\ ParseIdle
    /\ SvcIdle
    /\ signer \in KeyIds
    /\ signedMsg \in Messages
    /\ signature = <<>>
    /\ verifyFn = ""
    /\ verifyArgs = <<>>
    /\ verifyOut = <<>>

\* sign(m, sk) with the signing key of pair `signer`
SignMessage ==
    /\ signature = <<>>
    /\ signature' = <<Sign(signedMsg, signer)>>
    /\ UNCHANGED <<signer, signedMsg, verifyFn, verifyArgs, verifyOut>>
    /\ UNCHANGED <<fanVars, didVars, parseVars, svcVars>>

CallVerify ==
    /\ signature # <<>>
    /\ verifyOut = <<>>
    /\ \E sig \in SigCandidates(signature[1]), m \in Messages, vk \in VkCandidates :
         /\ verifyArgs' = <<sig, BytesMsg(m), vk>>
         /\ verifyOut' = <<Verify(sig, BytesMsg(m), vk)>>
    /\ verifyFn' = "verify"
    /\ UNCHANGED <<signer, signedMsg, signature>>
    /\ UNCHANGED <<fanVars, didVars, parseVars, svcVars>>

CallVerify64u ==
    /\ signature # <<>>
    /\ verifyOut = <<>>
    /\ \E sig \in SigCandidates(signature[1]), m \in Messages, vk \in VkCandidates,
          type \in {"bytes", "str"} :
         \E sigText \in TextCandidates(sig), vkText \in TextCandidates(vk) :
            LET msg == [type |-> type, data |-> m] IN
            /\ verifyArgs' = <<sigText, msg, vkText>>
            /\ verifyOut' = <<Verify64u(sigText, msg, vkText)>>
    /\ verifyFn' = "verify64u"
    /\ UNCHANGED <<signer, signedMsg, signature>>
    /\ UNCHANGED <<fanVars, didVars, parseVars, svcVars>>

VerifyNext ==
    \/ SignMessage
    \/ CallVerify
    \/ CallVerify64u

SpecVerify == VerifyInit /\ [][VerifyNext]_vars

\* ------------------------------------------- properties of the fan-out
Requested == Range(urls)

Ended == pc \in {"returned", "raised"}

Started(r) == gen[r].st # "fresh"

\* the replica's complete response reached client.responses
GotResponse(r) == gen[r].received # <<>>

\* the replica's request ran into the deadline without a response
TimedOut(r) == gen[r].st = "finished" /\ ~GotResponse(r)

\* servicing the replica's connection raised, or its response's body cannot
\* be decoded
ReplicaFailed(r) ==
    \/ gen[r].st = "raised"
    \/ GotResponse(r) /\ gen[r].received[1].body \notin JsonBodies

NoReplicaFailed == \A r \in Requested : ~ReplicaFailed(r)

\* the outcome the mapping should hold for replica r
ExpectedOutcome(r) ==
    IF GotResponse(r)
    THEN <<JsonLoads(gen[r].received[1].body), gen[r].received[1].status>>
    ELSE TimeoutOutcome

\* C1: a history fan-out call in which no replica fails returns a mapping
\* that holds, for each requested replica, the success outcome (decoded
\* body, status) when its response arrived before the deadline and the
\* timeout outcome ({"error": "request timeout"}, 0) when it did not; a
\* silent replica does not make the call end with an exception.
C1_OutcomePerReplica ==
    (service = "history" /\ Ended /\ NoReplicaFailed) =>
        /\ pc = "returned"
        /\ DOMAIN values = Requested
        /\ \A r \in Requested : values[r] = ExpectedOutcome(r)

\* C2: a failure of one replica (an exception while servicing it, or a body
\* that cannot be decoded) never leaves the fan-out call as an exception:
\* once a replica has failed the call still goes on to return a mapping
\* with an entry for every requested replica.
C2_FailureCaptured ==
    \A r \in Requested :
        ReplicaFailed(r) =>
            /\ pc # "raised"
            /\ pc = "returned" => DOMAIN values = Requested

\* C3: whenever a fan-out call returns, the mapping it returns has exactly
\* one entry for each requested replica and none for any other, whatever
\* the order in which the replicas completed.
C3_OneEntryPerReplica ==
    pc = "returned" =>
        /\ DOMAIN values = Requested
        /\ \A r \in Requested : gen[r].st = "finished"

\* a call of two or more replicas has returned, and a replica later in the
\* list completed in an earlier round than one before it
C3_Witness ==
    /\ pc = "returned"
    /\ Len(urls) >= 2
    /\ \E i, j \in DOMAIN urls :
          i < j /\ gen[urls[j]].steps < gen[urls[i]].steps

\* C4: every fan-out call returns, and does so no later than the round in
\* which the deadline elapses (timeout / 0.125 rounds of one step, then
\* the round that finds the timer expired).
C4_ReturnsByDeadline ==
    (service = "history" /\ Ended /\ NoReplicaFailed) =>
        /\ pc = "returned"
        /\ round <= timeout + 1

\* C5: when the fan-out call has ended, every replica whose request was
\* started has had its connection closed, however many replicas timed out.
C5_ConnectionsClosed ==
    (service = "history" /\ Ended /\ NoReplicaFailed) =>
        \A r \in Requested : Started(r) => gen[r].conn = "closed"


\* ------------------- parseJsonFile, parseDataFile as a state machine
Chars7 == <<"x">>

\* "did:dad:a", "did:dad", "did:a:a", "did:dad:"
DidGood == <<"d", "i", "d", ":", "d", "a", "d", ":", "a">>

DidTwoParts == <<"d", "i", "d", ":", "d", "a", "d">>

DidOtherMethod == <<"d", "i", "d", ":", "a", ":", "a">>

DidEmptyKey == <<"d", "i", "d", ":", "d", "a", "d", ":">>

\* values found under the key id
IdValues ==
    {JStr(DidGood), JStr(DidTwoParts), JStr(DidOtherMethod), JStr(DidEmptyKey),
     JNum("7"), JNull}

\* the lists of keys of the objects found inside a wrapper
InnerKeyLists ==
    {<<>>, <<"id">>, <<"id", "signer">>, <<"id", "signer", "signers">>,
     <<"signers", "signer", "id">>, <<"signer", "signers">>,
     <<"id", "blob">>, <<"blob", "id">>, <<"blob">>}

\* the value an inner object holds under key k
InnerValue(k, idv) ==
    IF k = "id" THEN idv
    ELSE IF k = "signers" THEN JArr(<<JStr(Chars7)>>)
    ELSE JStr(Chars7)

InnerObjects ==
    {JObj([i \in DOMAIN ks |-> <<ks[i], InnerValue(ks[i], idv)>>]) :
        ks \in InnerKeyLists, idv \in IdValues}

\* values that are not objects: numbers, null, strings (one holding the
\* text of every key), lists (one holding every key)
NonObjects ==
    {JNull, JFalse, JTrue, JNum("0"), JNum("7"), JStr(<<>>), JStr(Chars7),
     JStr(KeyText("id") \o KeyText("signers") \o KeyText("blob")),
     JArr(<<>>), JArr(<<JNum("7")>>),
     JArr(<<JStr(KeyText("id")), JStr(KeyText("signer")),
            JStr(KeyText("signers")), JStr(KeyText("blob"))>>)}

InnerValues == InnerObjects \cup NonObjects

\* the JSON texts: values that are not objects, and objects of one or two
\* pairs, a repeated key among them
Docs ==
    NonObjects
        \cup {JObj(<<>>), JObj(<<<<"x", JNum("7")>>>>)}
        \cup {JObj(<<<<w, v>>>>) : w \in {"history", "otp"}, v \in InnerValues}
        \cup {JObj(<<<<"history", v>>, <<"otp", v>>>>) : v \in NonObjects}
        \cup {JObj(<<<<"otp", JNum("7")>>, <<"history", v>>, <<"otp", v>>>>) :
                  v \in NonObjects}

Files ==
    [kind : {"empty", "garbage", "deep"}, doc : {JNull}]
        \cup [kind : {"json"}, doc : Docs]

RequiredsChoices ==
    {<<>>, <<"history">>, <<"otp">>, <<"history", "otp">>, <<"x", "history">>}

Dtypes == {"history", "otp", "blob"}

ParseInit ==
    /\ FanIdle
    /\ DidIdle
    /\ VerifyIdle
    /\ SvcIdle
    /\ file \in Files
    /\ parseFn = ""
    /\ parseArg = <<>>
    /\ parseOut = <<>>

CallParseJsonFile ==
    /\ parseOut = <<>>
    /\ \E requireds \in RequiredsChoices :
         /\ parseArg' = requireds
         /\ parseOut' = <<ParseJsonFile(file, requireds)>>
    /\ parseFn' = "parseJsonFile"
    /\ UNCHANGED file
    /\ UNCHANGED <<fanVars, didVars, verifyVars, svcVars>>

CallParseDataFile ==
    /\ parseOut = <<>>
    /\ \E dtype \in Dtypes :
         /\ parseArg' = <<dtype>>
         /\ parseOut' = <<ParseDataFile(file, dtype)>>
    /\ parseFn' = "parseDataFile"
    /\ UNCHANGED file
    /\ UNCHANGED <<fanVars, didVars, verifyVars, svcVars>>

ParseNext ==
    \/ CallParseJsonFile
    \/ CallParseDataFile

SpecParse == ParseInit /\ [][ParseNext]_vars

\* ---------------------------------------------- properties of validateDid
NumColons(s) == Cardinality({i \in DOMAIN s : s[i] = ":"})

\* the text "did:<m>:" a DID of method m starts with
DidHead(m) == DidPrefix \o <<":">> \o m \o <<":">>

StartsWith(s, p) == Len(s) >= Len(p) /\ SubSeq(s, 1, Len(p)) = p

C6_SignVerify ==
    (verifyFn = "verify" /\ verifyArgs[3] = Vk(signer)) =>
        LET sig == verifyArgs[1]
            msg == verifyArgs[2].data
            out == verifyOut[1]
        IN /\ (sig = signature[1] /\ msg = signedMsg) => out = Returned(TRUE)
           /\ (sig = signature[1] /\ msg # signedMsg) => out = Returned(FALSE)
           /\ (sig # signature[1] /\ msg = signedMsg) => out = Returned(FALSE)

\* the text or bytes cannot be a signature or key: undecodable text, or
\* bytes of the wrong length or with foreign bytes in them
MalformedSig(b) == Len(b) # SigLen \/ \E i \in DOMAIN b : b[i][1] # "s"

MalformedVk(b) == \A k \in KeyIds : b # Vk(k)

Undecodable(text) == \E i \in DOMAIN text : text[i][1] # "c"

\* C7: verify and verify64u never raise: for every signature, message and
\* key, well-formed or not, they return a boolean, and they return false
\* when the signature or the key is malformed.
C7_VerifyNeverRaises ==
    verifyOut # <<>> =>
        LET out == verifyOut[1] IN
        /\ out.exc = ""
        /\ (/\ verifyFn = "verify"
            /\ MalformedSig(verifyArgs[1]) \/ MalformedVk(verifyArgs[3]))
               => out = Returned(FALSE)
        /\ (/\ verifyFn = "verify64u"
            /\ Undecodable(verifyArgs[1]) \/ Undecodable(verifyArgs[3]))
               => out = Returned(FALSE)

\* ------------------------- properties of parseJsonFile, parseDataFile
\* the keys of the pairs of an object's text, each once, in the order of
\* their first occurrence
RECURSIVE KeysOnce(_)
KeysOnce(pairs) ==
    IF pairs = <<>> THEN <<>>
    ELSE LET init == KeysOnce(SubSeq(pairs, 1, Len(pairs) - 1))
             k == pairs[Len(pairs)][1]
         IN IF \E i \in DOMAIN init : init[i] = k THEN init ELSE Append(init, k)

\* the value the text gives key k: that of its last pair with key k
LastValue(pairs, k) ==
    pairs[CHOOSE i \in DOMAIN pairs :
             pairs[i][1] = k /\ \A j \in i + 1 .. Len(pairs) : pairs[j][1] # k][2]

\* out is the object of the text doc: same keys, in the text's order, each
\* with the value the text gives it
SameObject(out, doc) ==
    /\ out[1] = "obj"
    /\ [i \in DOMAIN out[2] |-> out[2][i][1]] = KeysOnce(doc[2])
    /\ \A i \in DOMAIN out[2] :
          out[2][i][2] = JsonLoad(LastValue(doc[2], out[2][i][1]))

\* the keys of requireds the object of the text lacks
MissingKeys(doc, requireds) ==
    {requireds[i] : i \in DOMAIN requireds} \ {doc[2][i][1] : i \in DOMAIN doc[2]}

\* JSON values Python takes for false: null, false, 0, "", [] and {}
EmptyValue(doc) ==
    doc \in {JNull, JFalse, JNum("0"), JStr(<<>>), JArr(<<>>), JObj(<<>>)}

C10_ClosedErrorSurface ==
    parseOut # <<>> => parseOut[1].exc \in {"", "ValidationError"}

\* the value the text gives the wrapper key w, as json.load builds it
WrapperValue(doc, w) == JsonLoad(LastValue(doc[2], w))

\* the keys a record of a dtype has to have
RequiredInside(dtype) ==
    IF dtype = "history" THEN {"id", "signer", "signers"} ELSE {"id", "blob"}

\* the text is an object that has the wrapper key of the dtype
HasWrapper(f, dtype) ==
    /\ f.kind = "json"
    /\ f.doc[1] = "obj"
    /\ MissingKeys(f.doc, <<dtype>>) = {}

\* C11: parseDataFile returns a record only when the dtype is "history" or
\* "otp", the file is an object with that wrapper, the wrapper's value is
\* an object with every field of the dtype, and its id is a string
\* did:dad:<k>; the record returned is the wrapper's value. An object
\* without the wrapper fails on the wrapper whatever else it holds, and a
\* wrapped object without one of the fields fails on a missing field
\* whatever its id is.
C11_ReturnsOnlyChecked ==
    parseFn = "parseDataFile" =>
        LET out == parseOut[1]
            dtype == parseArg[1]
        IN /\ out.exc = "" =>
                /\ dtype \in {"history", "otp"}
                /\ HasWrapper(file, dtype)
                /\ LET inner == WrapperValue(file.doc, dtype) IN
                      /\ inner[1] = "obj"
                      /\ \A k \in RequiredInside(dtype) : HasKey(inner, k)
                      /\ GetItem(inner, "id")[1] = "str"
                      /\ NumColons(GetItem(inner, "id")[2]) = 2
                      /\ StartsWith(GetItem(inner, "id")[2], DidHead(DefaultMethod))
                      /\ out.val = inner
           /\ (/\ dtype \in {"history", "otp"}
               /\ file.kind = "json"
               /\ file.doc[1] = "obj"
               /\ file.doc[2] # <<>>
               /\ ~HasWrapper(file, dtype))
                  => out = Raised("ValidationError",
                                  <<"Missing required field", dtype>>)
           /\ (/\ dtype \in {"history", "otp"}
               /\ HasWrapper(file, dtype)
               /\ WrapperValue(file.doc, dtype)[1] = "obj"
               /\ \E k \in RequiredInside(dtype) :
                      ~HasKey(WrapperValue(file.doc, dtype), k))
                  => /\ out.exc = "ValidationError"
                     /\ out.msg[1] = "Missing required field"
                     /\ out.msg[2] \in RequiredInside(dtype)
                     /\ ~HasKey(WrapperValue(file.doc, dtype), out.msg[2])

\* parseDataFile has returned a history record whose fields come in another
\* order than the one they are checked in
C11_Witness ==
    /\ parseFn = "parseDataFile"
    /\ parseArg = <<"history">>
    /\ parseOut[1].exc = ""
    /\ parseOut[1].val[2][1][1] = "signers"

\* --------------------------------------------------- the record services
\* getDidHistory, postHistory, putHistory (lib/historying.py) and getOtpBlob,
\* postOtpBlob, putOtpBlob (lib/otping.py).
ReadFns == {"getDidHistory", "getOtpBlob"}

WriteFns == {"postHistory", "putHistory", "postOtpBlob", "putOtpBlob"}

\* the module of a function: historying.py collects its generators in a
\* dict, otping.py in a list
ServiceOf(f) ==
    IF f \in {"getDidHistory", "postHistory", "putHistory"} THEN "history"
    ELSE "otp"

\* A data dict is the sequence of its <<key, value>> pairs, in insertion
\* order; a value is a string, the sequence of its characters.
\* characters outside ASCII
NonAscii == {"e-acute"}

\* one character of a string as json.dumps(...).encode() writes it: itself,
\* its UTF-8 bytes (ensure_ascii=False) or its \uXXXX escape (ensure_ascii
\* left at True)
DumpChar(c, ensureAscii) ==
    IF c \notin NonAscii THEN <<"char", c>>
    ELSE IF ensureAscii THEN <<"escape", c>>
    ELSE <<"utf8", c>>

\* json.dumps(data, ensure_ascii=..., separators=(',', ':')).encode(): the
\* pairs in the order of the dict, nothing between them but , and :
Dumps(d, ensureAscii) ==
    [i \in DOMAIN d |->
        <<d[i][1], [j \in DOMAIN d[i][2] |-> DumpChar(d[i][2][j], ensureAscii)]>>]

\* gen.signResource(resource, sKey): the detached signature, as text
SignResource(resource, k) == KeyToKey64u(Sign(resource, k))

\* the Signature header: signer="..." and, for putHistory, rotation="..."
SignatureHeader(f, b, sk, psk) ==
    [signer |-> <<SignResource(b, sk)>>,
     rotation |-> IF f = "putHistory" THEN <<SignResource(b, psk)>> ELSE <<>>]

\* Patron(..., data=data): the record services hand the dict, not bdata, to
\* the transport, which writes the body from it with json.dumps(data,
\* separators=(',', ':')), ensure_ascii left at its default
PatronBody(d) == Dumps(d, TRUE)

\* str(arrow.utcnow()) at the time of the call
Nows == {"t1", "t2"}

\* the dicts a caller passes as data
WriteRecords ==
    {<<<<"id", <<"a">>>>>>,
     <<<<"id", <<"e-acute">>>>>>,
     <<<<"changed", <<"t0">>>>, <<"id", <<"a">>>>>>}

\* the arguments data, sk and psk of a call of f
ArgsOf(f) ==
    IF f \in ReadFns THEN {[data |-> <<>>, sk |-> 0, psk |-> 0]}
    ELSE [data : WriteRecords, sk : KeyIds,
          psk : IF f = "putHistory" THEN KeyIds ELSE {0}]

\* consensing.consense(data, dtype): the decoded record held by strictly
\* more replicas than any other, <<>> when there is none; timeout outcomes
\* hold no record
Consense(vals) ==
    LET voters == {r \in DOMAIN vals : vals[r] # TimeoutOutcome}
        count(b) == Cardinality({r \in voters : vals[r][1] = b})
        winners == {vals[r][1] : r \in
                       {x \in voters : \A y \in voters :
                           vals[y][1] # vals[x][1]
                              => count(vals[x][1]) > count(vals[y][1])}}
    IN [agreed |-> IF winners = {} THEN <<>>
                   ELSE <<CHOOSE b \in winners : TRUE>>,
        support |-> IF winners = {} THEN 0
                    ELSE count(CHOOSE b \in winners : TRUE)]

\* A record service function has been called.
ServiceCall ==
    /\ fn \in ReadFns \cup WriteFns
    /\ service = ServiceOf(fn)
    /\ args \in ArgsOf(fn)
    /\ dataDict = args.data
    /\ bdata = <<>>
    /\ headers = NoHeaders
    /\ svcOut = <<>>
    /\ urls \in UrlLists
    /\ timeout \in 1 .. MaxTimeout
    /\ gen = [r \in Replicas |-> FreshGen]
    /\ pending = <<>>
    /\ remove = <<>>
    /\ cursor = 1
    /\ round = 1
    /\ values = <<>>
    /\ pc = "prep"
    /\ exc = ""

\* The function's body up to its call of awaitAsync: a write stamps
\* data['changed'], serializes, signs; every function then builds one
\* patronHelper generator per url.
ServicePrepare ==
    /\ pc = "prep"
    /\ IF fn \in WriteFns
       THEN \E now \in Nows :
              LET stamped == SetItem(dataDict, <<"changed", <<now>>>>)
                  b == Dumps(stamped, FALSE)
              IN /\ dataDict' = stamped
                 /\ bdata' = <<b>>
                 /\ headers' = SignatureHeader(fn, b, args.sk, args.psk)
       ELSE UNCHANGED <<dataDict, bdata, headers>>
    /\ pending' = urls
    /\ pc' = "loop"
    /\ UNCHANGED <<service, urls, timeout, gen, remove, cursor, round,
                   values, exc>>
    /\ UNCHANGED <<fn, args, svcOut>>
    /\ UNCHANGED <<didVars, verifyVars, parseVars>>

\* awaitAsync has returned: a read hands the mapping to consense, a write
\* returns it
ServiceReturn ==
    /\ pc = "returned"
    /\ pc' = "done"
    /\ svcOut' = IF fn \in ReadFns THEN <<Consense(values)>> ELSE <<values>>
    /\ UNCHANGED <<service, urls, timeout, gen, pending, remove, cursor,
                   round, values, exc>>
    /\ UNCHANGED <<fn, args, dataDict, bdata, headers>>
    /\ UNCHANGED <<didVars, verifyVars, parseVars>>

ServiceNext ==
    \/ ServicePrepare
    \/ FanNext
    \/ ServiceReturn

ServiceInit == ServiceCall /\ DidIdle /\ VerifyIdle /\ ParseIdle

SpecService == ServiceInit /\ [][ServiceNext]_vars

\* ------------------------------------- properties of the record services
\* the function has returned or raised
ServiceEnded == pc \in {"done", "raised"}

\* the body and the headers of the request the replica's Patron transmits
SentBody(r) == PatronBody(dataDict)

SentHeaders(r) == headers

\* the serialization holds the stamp the function put on the record
Stamped(b) ==
    \E i \in DOMAIN b :
        b[i][1] = "changed" /\ \E now \in Nows : b[i][2] = <<<<"char", now>>>>

\* C12: when a write in which no replica's connection or body is broken
\* has ended, the signed serialization is that of the
\* stamped record, the Signature header holds the signer's signature of it
\* (and for putHistory the rotation key's signature of the same bytes), and
\* every replica named has been sent that serialization as its body, with
\* that header.
C12_SignedBodySent ==
    (fn \in WriteFns /\ ServiceEnded /\ NoReplicaFailed) =>
        /\ bdata # <<>>
        /\ Stamped(bdata[1])
        /\ headers.signer = <<KeyToKey64u(Sign(bdata[1], args.sk))>>
        /\ fn = "putHistory" =>
              headers.rotation = <<KeyToKey64u(Sign(bdata[1], args.psk))>>
        /\ \A r \in Requested :
              /\ Started(r)
              /\ SentBody(r) = bdata[1]
              /\ SentHeaders(r) = headers

\* C13: a write in which no replica's connection or body is broken returns
\* the mapping of every requested replica to its own outcome, (decoded
\* body, status) or the timeout outcome, however many of them succeeded.
C13_RawOutcomes ==
    (fn \in WriteFns /\ ServiceEnded /\ NoReplicaFailed) =>
        /\ pc = "done"
        /\ DOMAIN svcOut[1] = Requested
        /\ \A r \in Requested : svcOut[1][r] = ExpectedOutcome(r)

\* the replicas whose response holds a decodable record
Voters == {r \in Requested : GotResponse(r) /\ gen[r].received[1].body \in JsonBodies}

\* the number of voters whose record is b
Votes(b) == Cardinality({r \in Voters : gen[r].received[1].body = b})

\* C14: a read returns the record that strictly more responding replicas
\* hold than any other, and the no-consensus result when the largest groups
\* tie or no replica produced a decodable record, every replica timing out
\* included; it never ends in another way.
C14_PluralityOrNone ==
    (fn \in ReadFns /\ ServiceEnded) =>
        /\ pc = "done"
        /\ \A b \in JsonBodies :
              (\A c \in JsonBodies \ {b} : Votes(b) > Votes(c))
                  => svcOut[1].agreed = <<JsonLoads(b)>>
        /\ (\A b \in JsonBodies : \E c \in JsonBodies \ {b} : Votes(c) >= Votes(b))
              => svcOut[1].agreed = <<>>

\* C15: once a write has stamped and signed, the dict the caller passed is
\* still as the caller passed it.
C15_CallerRecordUnchanged ==
    (fn \in WriteFns /\ pc # "prep") => dataDict = args.data

\* ------------------------------------ properties of the scheduling rounds
\* the number of next() calls the replica's generator has had
NextCalls(r) ==
    IF gen[r].st = "fresh" THEN 0
    ELSE IF gen[r].st = "finished" THEN gen[r].steps + 1
    ELSE gen[r].steps

\* C16: in a history fan-out in which no replica's connection or body is
\* broken, every request still in `generators` has had one next() per round
\* so far (those the for loop has passed one more), a finished request is
\* not stepped again, and a replica whose response is complete has its
\* outcome recorded at its own next step, whatever the other replicas do:
\* at any time it is either recorded or about to be.
C16_IndependentProgress ==
    (service = "history" /\ NoReplicaFailed) =>
        /\ pc = "loop" =>
              \A i \in DOMAIN pending :
                  NextCalls(pending[i]) = IF i < cursor THEN round ELSE round - 1
        /\ pc = "loop" =>
              \A r \in Requested :
                  gen[r].st = "finished" =>
                      r \notin Range(pending) \/ r \in Range(remove)
        /\ \A r \in Requested :
              GotResponse(r) =>
                  \/ r \in DOMAIN values /\ values[r] = ExpectedOutcome(r)
                  \/ pc = "loop" /\ gen[r].st = "suspended"

\* the requests of `generators` that have not finished
StillPending == {r \in Range(pending) : gen[r].st # "finished"}

\* the for loop is at the start or at the end of a round
RoundBoundary == pc = "loop" /\ (cursor = 1 \/ cursor > Len(pending))

\* C17: at every round boundary the requests still pending have the same
\* clock value and the same deadline on it, and a request that timed out
\* did so in round timeout + 1 (timeout in steps of 0.125), with its clock
\* at the deadline.
C17_SharedDeadline ==
    /\ RoundBoundary =>
          \A r1, r2 \in StillPending :
              /\ gen[r1].stamp = gen[r2].stamp
              /\ gen[r1].stop = gen[r2].stop
    /\ \A r \in Requested :
          TimedOut(r) =>
              /\ round = timeout + 1
              /\ gen[r].stamp = InitialStamp + timeout

\* a replica has timed out while another, sent and answered at other steps,
\* was still pending
C17_Witness ==
    /\ Len(urls) >= 2
    /\ \E r1, r2 \in Requested :
          /\ TimedOut(r1)
          /\ r2 \in StillPending
          /\ ~gen[r2].requests

\* C20: when httpRequest has left its loop, the response queue has been
\* emptied and the connection closed; if the replica's response had
\* arrived, it is what httpRequest returned (it is recorded as the replica's
\* outcome, or its body failed to decode), also when the timer had expired;
\* None is returned only when no response had arrived.
C20_ResponseNotLost ==
    \A r \in Requested :
        gen[r].st = "finished" =>
            /\ gen[r].responses = <<>>
            /\ gen[r].conn = "closed"
            /\ GotResponse(r) =>
                  IF gen[r].received[1].body \in JsonBodies
                  THEN r \in DOMAIN values /\ values[r] = ExpectedOutcome(r)
                  ELSE pc = "raised" /\ exc \in {"UnicodeDecodeError", "JSONDecodeError"}
            /\ ~GotResponse(r) =>
                  pc = "raised" /\ exc = NoneAccessError(service)

\* a response that arrived in the last step before the deadline has been
\* returned with the timer expired
C20_Witness ==
    \E r \in Requested :
        /\ gen[r].st = "finished"
        /\ GotResponse(r)
        /\ TimerExpired(gen[r])
        /\ r \in DOMAIN values

\* ----------------------------- the fan-out under httpRequest's defaults
\* patronHelper passes no timeout: httpRequest runs with its default.
DefaultCall ==
    /\ service \in {"history", "otp"}
    /\ urls \in UrlLists
    /\ timeout = DefaultTimeout
    /\ gen = [r \in Replicas |-> FreshGen]
    /\ pending = urls
    /\ remove = <<>>
    /\ cursor = 1
    /\ round = 1
    /\ values = <<>>
    /\ pc = "loop"
    /\ exc = ""

DefaultInit == DefaultCall /\ DidIdle /\ VerifyIdle /\ ParseIdle /\ SvcIdle

\* the rounds of awaitAsync, followed for MaxDefaultRounds rounds
DefaultNext ==
    \/ round <= MaxDefaultRounds /\ AwaitItemsRaises
    \/ round <= MaxDefaultRounds /\ AwaitStepYield
    \/ round <= MaxDefaultRounds /\ AwaitStepStop
    \/ round <= MaxDefaultRounds /\ AwaitStepRaise
    \/ round <= MaxDefaultRounds /\ AwaitEndRound

SpecDefault == DefaultInit /\ [][DefaultNext]_vars

\* 10 seconds of the store's clock, in ticks
TenSeconds == 10 * TicksPerSecond

\* C18: with the default timeout a replica that has not responded is
\* stepped while its clock, advanced by 0.125 from 0, is below 10 and no
\* longer: its timer is set to 10, it has at most 80 steps, and it is not
\* left suspended with its clock at 10 or beyond.
C18_TenSecondDeadline ==
    \A r \in Requested :
        (Started(r) /\ ~GotResponse(r)) =>
            /\ gen[r].steps <= TenSeconds
            /\ gen[r].st = "suspended" => gen[r].stamp < InitialStamp + TenSeconds

\* ------------------------------------------------ the accepted DIDs
\* C19: every string validateDid accepts has exactly two colons, a method
\* that is not empty and equals the expected one, and a key string that is
\* not empty.
C19_AcceptedDidInvariant ==
    (didOut # <<>> /\ didOut[1].exc = "") =>
        /\ NumColons(did) = 2
        /\ method # <<>>
        /\ StartsWith(did, DidHead(method))
        /\ didOut[1].val[2] # <<>>
        /\ Len(did) > Len(DidHead(method))

====
